---- MODULE Spec2Model ----
(***************************************************************************)
(* A model of ConnPool (conn_pool.go): a pool of mongo clients kept in two *)
(* maps, freeConnections and connectionsInUse, keyed by the md5 sum of the *)
(* client's JSON serialisation, and guarded by one lock.                   *)
(*                                                                         *)
(* Any number of callers call Checkout and CheckIn.  A caller has no state *)
(* of its own but the clients it holds, and a caller that finds the lock   *)
(* taken has no effect until it gets the lock, so a call begins with the   *)
(* step that takes the lock and callers are not told apart.  Checkout runs *)
(* under the lock as a sequence of steps, one per Connector or Prober call *)
(* it makes, so that the clock can advance while it runs.  CheckIn makes   *)
(* no external call and is one step.                                       *)
(*                                                                         *)
(* Time is counted in units of 300 seconds: the pool's expiry of           *)
(* 300000000000 ns (5 minutes) is 1 unit.                                  *)
(***************************************************************************)
EXTENDS Integers, FiniteSets, Sequences, TLC

\* Bounds of the model.
MaxClients == 3
MaxPoolSize == 2
MaxTime == 2

\* ConnPool.expiry as set by CreateConnPool, in units of 300 s.
expiry == 1

Clients == 1..MaxClients

VARIABLES
  poolSize,          \* ConnPool.poolSize
  freeConnections,   \* ConnPool.freeConnections: key -> [db, creationTime]
  connectionsInUse,  \* ConnPool.connectionsInUse: key -> [db, creationTime]
  lock,              \* ConnPool.lock: TRUE while a caller holds it
  clock,             \* time.Now()
  json,              \* client -> its JSON serialisation class (0: not opened yet)
  pc,                \* the position of the Checkout that runs, or "idle"
  i,                 \* Checkout's loop counter
  now,               \* Checkout's local now
  toScan,            \* keys the range over freeConnections has yet to visit
  ret,               \* what the running Checkout is about to return
  start,             \* the two maps as the running Checkout found them
  held,              \* clients checked out and not checked in by their holder
  issued,            \* clients some Checkout has returned
  expiredSeen,       \* clients the running scan found expired
  invalidSeen,       \* clients the running scan found invalid
  opens,             \* clients the running Checkout has opened
  clean,             \* no failure, no expiry, no undisciplined CheckIn so far,
                     \* and every Checkout so far came before every CheckIn
  nCo,               \* Checkouts completed while clean
  nCi,               \* CheckIns completed while clean
  ci,                \* what the CheckIn that has just completed found and did
  closes,            \* client -> the calls of kill on it: 0, 1, or 2 for more
  validated          \* clients that have passed validate

vars == <<poolSize, freeConnections, connectionsInUse, lock, clock, json, pc,
          i, now, toScan, ret, start, held, issued, expiredSeen, invalidSeen,
          opens, clean, nCo, nCi, ci, closes, validated>>

----------------------------------------------------------------------------
\* Go maps.

len(m) == Cardinality(DOMAIN m)

Put(m, k, v) == [x \in DOMAIN m \cup {k} |-> IF x = k THEN v ELSE m[x]]

Delete(m, k) == [x \in DOMAIN m \ {k} |-> m[x]]

EmptyMap == [x \in {} |-> 0]

Dbs(m) == {m[k].db : k \in DOMAIN m}

Total == len(freeConnections) + len(connectionsInUse)

----------------------------------------------------------------------------
\* Clients and their keys.

Opened == Cardinality({c \in Clients : json[c] # 0})

\* The client the next successful mongo.NewClient returns.
NewClient == Opened + 1

\* The model's clients are used up: mongo.NewClient can only fail.
CanOpen == Opened < MaxClients

\* What json.Marshal may give for a new client: the serialisation of an
\* earlier client, or one no earlier client has.  Classes are named by their
\* first client.
Serialisations(c) == {json[d] : d \in 1..(c - 1)} \cup {c}

\* ConnPool.hash: md5 of the client's serialisation, one key per class.
hash(c) == json[c]

\* killFailed: the client whose kill made Checkout fail (0: none).
\* cause: the call whose failure made Checkout fail: "open" (mongo.NewClient),
\* "probe" (client.Connect), "close" (client.Disconnect), or "" for none.
NoRet == [client |-> 0, err |-> FALSE, fromFree |-> FALSE, age |-> 0,
          killFailed |-> 0, cause |-> ""]

NoStart == [free |-> EmptyMap, inUse |-> EmptyMap]

NoCloses == [c \in Clients |-> 0]

NoCi == [client |-> 0, byHolder |-> FALSE, before |-> 0, inUse |-> FALSE,
         inFree |-> FALSE, free |-> EmptyMap, closes |-> NoCloses]

----------------------------------------------------------------------------
\* The conditions of the code.

\* Checkout's first-fill loop: i < c.poolSize
FillContinues(n) == n < poolSize

\* The loop with its bound one higher.
TopUpContinuesPast(n) == n <= poolSize + 1

\* Checkout's "fill the difference" loop: i <= c.poolSize
TopUpContinues(n) == n <= poolSize

\* The expiry test one unit late.
ExpiredLate(t, v) == t - v.creationTime > expiry + 1

\* Checkout's expiry test: now - v.creationTime > c.expiry
Expired(t, v) == t - v.creationTime > expiry

\* The test with <= for <.
CheckInKeepsAtSize(n) == n <= poolSize

\* The test with the bound one lower.
CheckInKeepsBelow(n) == n < poolSize - 1

\* CheckIn's test, after the delete:
\* len(c.freeConnections) + len(c.connectionsInUse) < c.poolSize
CheckInKeeps(n) == n < poolSize

----------------------------------------------------------------------------

Init ==
  /\ poolSize \in 1..MaxPoolSize
  /\ freeConnections = EmptyMap
  /\ connectionsInUse = EmptyMap
  /\ lock = FALSE
  /\ clock = 0
  /\ json = [c \in Clients |-> 0]
  /\ pc = "idle"
  /\ i = 0
  /\ now = 0
  /\ toScan = {}
  /\ ret = NoRet
  /\ start = NoStart
  /\ held = {}
  /\ issued = {}
  /\ expiredSeen = {}
  /\ invalidSeen = {}
  /\ opens = 0
  /\ clean = TRUE
  /\ nCo = 0
  /\ nCi = 0
  /\ ci = NoCi
  /\ closes = NoCloses
  /\ validated = {}

\* time passes
Tick ==
  /\ clock < MaxTime
  /\ clock' = clock + 1
  /\ UNCHANGED <<poolSize, freeConnections, connectionsInUse, lock, json, pc,
                 i, now, toScan, ret, start, held, issued, expiredSeen,
                 invalidSeen, opens, clean, nCo, nCi, closes, validated>>
  /\ ci' = NoCi

\* the history of a failed or irregular run is dropped
Dirty ==
  /\ clean' = FALSE
  /\ nCo' = 0
  /\ nCi' = 0

\* Checkout leaves with the error of a failed create ("open") or validate
\* ("probe")
Fail(cause) ==
  /\ pc' = "co_ret"
  /\ ret' = [NoRet EXCEPT !.err = TRUE, !.cause = cause]
  /\ Dirty

\* Checkout leaves with the error of kill(c)
FailKill(c) ==
  /\ pc' = "co_ret"
  /\ ret' = [NoRet EXCEPT !.err = TRUE, !.killFailed = c, !.cause = "close"]
  /\ Dirty

\* Where Checkout goes once the top-up loop is over: the scan when
\* len(c.freeConnections) > 0, else the creation of a new connection.
AfterTopUp(f) == IF len(f) > 0 THEN "co_scan" ELSE "co_miss"

----------------------------------------------------------------------------
\* createConnections

\* createConnections without the validate.
createConnectionsUnprobed(j) ==
  /\ CanOpen
  /\ json' = [json EXCEPT ![NewClient] = j]
  /\ freeConnections' =
       Put(freeConnections, j, [db |-> NewClient, creationTime |-> clock])
  /\ opens' = opens + 1
  /\ UNCHANGED validated

\* create and validate succeed: the client, whose serialisation is j, is
\* stored in freeConnections under its hash with the current time.
createConnections(j) ==
  /\ CanOpen
  /\ json' = [json EXCEPT ![NewClient] = j]
  /\ freeConnections' =
       Put(freeConnections, j, [db |-> NewClient, creationTime |-> clock])
  /\ opens' = opens + 1
  /\ validated' = validated \cup {NewClient}

\* create fails and the nil client is stored all the same.
createConnectionsOpenFailsStores ==
  /\ freeConnections' =
       Put(freeConnections, 0, [db |-> 0, creationTime |-> clock])
  /\ UNCHANGED <<json, opens, validated>>

\* create fails: nothing is opened.
createConnectionsOpenFails ==
  UNCHANGED <<json, freeConnections, opens, validated>>

\* validate fails: the client is opened and neither stored nor closed.  Its
\* hash is never taken, so its serialisation is left in a class of its own.
createConnectionsProbeFails ==
  /\ CanOpen
  /\ json' = [json EXCEPT ![NewClient] = NewClient]
  /\ opens' = opens + 1
  /\ UNCHANGED <<freeConnections, validated>>

----------------------------------------------------------------------------
\* Checkout

\* c.lock.Lock(), and the test for the first fill
CheckoutLock ==
  /\ pc = "idle"
  /\ ~lock
  /\ lock' = TRUE
  /\ start' = [free |-> freeConnections, inUse |-> connectionsInUse]
  /\ i' = 0
  /\ pc' = IF /\ len(freeConnections) = 0
              /\ len(connectionsInUse) = 0
              /\ FillContinues(0)
           THEN "co_fill" ELSE "co_now"
  /\ IF nCi > 0 THEN Dirty ELSE UNCHANGED <<clean, nCo, nCi>>
  /\ ci' = NoCi
  /\ UNCHANGED <<poolSize, freeConnections, connectionsInUse, clock, json,
                 now, toScan, ret, held, issued, expiredSeen, invalidSeen,
                 opens, closes, validated>>

\* one round of the first fill
FillStep ==
  /\ pc = "co_fill"
  /\ \/ /\ \E j \in Serialisations(NewClient) : createConnections(j)
        /\ i' = i + 1
        /\ pc' = IF FillContinues(i + 1) THEN "co_fill" ELSE "co_now"
        /\ UNCHANGED <<ret, clean, nCo, nCi>>
     \/ /\ createConnectionsOpenFails
        /\ Fail("open")
        /\ UNCHANGED i
     \/ /\ createConnectionsProbeFails
        /\ Fail("probe")
        /\ UNCHANGED i
  /\ ci' = NoCi
  /\ UNCHANGED <<poolSize, connectionsInUse, lock, clock, now, toScan, held,
                 issued, expiredSeen, invalidSeen, start, closes>>

\* now := time.Now().UnixNano(), and the start of the top-up loop
NowStep ==
  /\ pc = "co_now"
  /\ now' = clock
  /\ i' = Total
  /\ pc' = IF TopUpContinues(Total) THEN "co_topup"
           ELSE AfterTopUp(freeConnections)
  /\ toScan' = IF TopUpContinues(Total) THEN {} ELSE DOMAIN freeConnections
  /\ ci' = NoCi
  /\ UNCHANGED <<poolSize, freeConnections, connectionsInUse, lock, clock,
                 json, ret, held, issued, expiredSeen, invalidSeen, opens,
                 clean, nCo, nCi, start, closes, validated>>

\* one round of the top-up loop
TopUpStep ==
  /\ pc = "co_topup"
  /\ \/ /\ \E j \in Serialisations(NewClient) : createConnections(j)
        /\ i' = i + 1
        /\ pc' = IF TopUpContinues(i + 1) THEN "co_topup"
                 ELSE AfterTopUp(freeConnections')
        /\ toScan' = IF TopUpContinues(i + 1) THEN {}
                     ELSE DOMAIN freeConnections'
        /\ UNCHANGED <<ret, clean, nCo, nCi>>
     \/ /\ createConnectionsOpenFails
        /\ Fail("open")
        /\ UNCHANGED <<i, toScan>>
     \/ /\ createConnectionsProbeFails
        /\ Fail("probe")
        /\ UNCHANGED <<i, toScan>>
  /\ ci' = NoCi
  /\ UNCHANGED <<poolSize, connectionsInUse, lock, clock, now, held, issued,
                 expiredSeen, invalidSeen, start, closes>>

\* kill(c): client.Disconnect is called on c.
kill(c) == closes' = [closes EXCEPT ![c] = IF @ < 2 THEN @ + 1 ELSE @]

\* Evict without the kill.
EvictUnclosed(k) ==
  /\ freeConnections' = Delete(freeConnections, k)
  /\ \/ /\ toScan' = toScan \ {k}
        /\ pc' = IF toScan \ {k} = {} THEN "co_miss" ELSE "co_scan"
        /\ Dirty
        /\ UNCHANGED ret
     \/ /\ toScan' = {}
        /\ FailKill(freeConnections[k].db)
  /\ UNCHANGED <<connectionsInUse, validated, closes>>

\* Evict moving the key to connectionsInUse.
EvictMarksInUse(k) ==
  /\ freeConnections' = Delete(freeConnections, k)
  /\ connectionsInUse' = Put(connectionsInUse, k, freeConnections[k])
  /\ kill(freeConnections[k].db)
  /\ \/ /\ toScan' = toScan \ {k}
        /\ pc' = IF toScan \ {k} = {} THEN "co_miss" ELSE "co_scan"
        /\ Dirty
        /\ UNCHANGED ret
     \/ /\ toScan' = {}
        /\ FailKill(freeConnections[k].db)
  /\ UNCHANGED validated

\* Evict without the delete.
EvictKeeps(k) ==
  /\ kill(freeConnections[k].db)
  /\ \/ /\ toScan' = toScan \ {k}
        /\ pc' = IF toScan \ {k} = {} THEN "co_miss" ELSE "co_scan"
        /\ Dirty
        /\ UNCHANGED ret
     \/ /\ toScan' = {}
        /\ FailKill(freeConnections[k].db)
  /\ UNCHANGED <<freeConnections, connectionsInUse, validated>>

\* The scan's key k is dropped from freeConnections and killed; the scan
\* goes on if kill succeeds and Checkout fails if it does not.
Evict(k) ==
  /\ freeConnections' = Delete(freeConnections, k)
  /\ kill(freeConnections[k].db)
  /\ \/ /\ toScan' = toScan \ {k}
        /\ pc' = IF toScan \ {k} = {} THEN "co_miss" ELSE "co_scan"
        /\ Dirty
        /\ UNCHANGED ret
     \/ /\ toScan' = {}
        /\ FailKill(freeConnections[k].db)
  /\ UNCHANGED <<connectionsInUse, validated>>

\* Take without the delete.
TakeKeepsFree(k) ==
  /\ connectionsInUse' =
       Put(connectionsInUse, k,
           [db |-> freeConnections[k].db, creationTime |-> now])
  /\ ret' = [client |-> freeConnections[k].db, err |-> FALSE,
             fromFree |-> TRUE, age |-> now - freeConnections[k].creationTime,
             killFailed |-> 0, cause |-> ""]
  /\ validated' = validated \cup {freeConnections[k].db}
  /\ toScan' = {}
  /\ pc' = "co_ret"
  /\ UNCHANGED <<freeConnections, clean, nCo, nCi, closes>>

\* The scan's key k passed validate: it is moved to connectionsInUse and its
\* client returned.
Take(k) ==
  /\ freeConnections' = Delete(freeConnections, k)
  /\ connectionsInUse' =
       Put(connectionsInUse, k,
           [db |-> freeConnections[k].db, creationTime |-> now])
  /\ ret' = [client |-> freeConnections[k].db, err |-> FALSE,
             fromFree |-> TRUE, age |-> now - freeConnections[k].creationTime,
             killFailed |-> 0, cause |-> ""]
  /\ validated' = validated \cup {freeConnections[k].db}
  /\ toScan' = {}
  /\ pc' = "co_ret"
  /\ UNCHANGED <<clean, nCo, nCi, closes>>

\* one round of the range over freeConnections, in any order
ScanStep ==
  /\ pc = "co_scan"
  /\ \E k \in toScan :
       \/ /\ Expired(now, freeConnections[k])
          /\ expiredSeen' = expiredSeen \cup {freeConnections[k].db}
          /\ Evict(k)
          /\ UNCHANGED invalidSeen
       \/ /\ ~Expired(now, freeConnections[k])
          /\ invalidSeen' = invalidSeen \cup {freeConnections[k].db}
          /\ Evict(k)
          /\ UNCHANGED expiredSeen
       \/ /\ ~Expired(now, freeConnections[k])
          /\ Take(k)
          /\ UNCHANGED <<expiredSeen, invalidSeen>>
  /\ ci' = NoCi
  /\ UNCHANGED <<poolSize, lock, clock, json, i, now, held, issued, opens,
                 start>>

\* MissStep without the write to connectionsInUse.
MissStepUnrecorded ==
  /\ pc = "co_miss"
  /\ \/ /\ CanOpen
        /\ \E j \in Serialisations(NewClient) :
             json' = [json EXCEPT ![NewClient] = j]
        /\ ret' = [client |-> NewClient, err |-> FALSE, fromFree |-> FALSE,
                   age |-> 0, killFailed |-> 0, cause |-> ""]
        /\ opens' = opens + 1
        /\ pc' = "co_ret"
        /\ UNCHANGED <<clean, nCo, nCi>>
     \/ /\ Fail("open")
        /\ UNCHANGED <<json, opens>>
  /\ ci' = NoCi
  /\ UNCHANGED <<poolSize, freeConnections, connectionsInUse, lock, clock, i,
                 now, toScan, held, issued, expiredSeen, invalidSeen, start,
                 closes, validated>>

\* no free connection was handed out: a new one is created
MissStep ==
  /\ pc = "co_miss"
  /\ \/ /\ CanOpen
        /\ \E j \in Serialisations(NewClient) :
             /\ json' = [json EXCEPT ![NewClient] = j]
             /\ connectionsInUse' =
                  Put(connectionsInUse, j,
                      [db |-> NewClient, creationTime |-> now])
        /\ ret' = [client |-> NewClient, err |-> FALSE, fromFree |-> FALSE,
                   age |-> 0, killFailed |-> 0, cause |-> ""]
        /\ opens' = opens + 1
        /\ pc' = "co_ret"
        /\ UNCHANGED <<clean, nCo, nCi>>
     \/ /\ Fail("open")
        /\ UNCHANGED <<json, connectionsInUse, opens>>
  /\ ci' = NoCi
  /\ UNCHANGED <<poolSize, freeConnections, lock, clock, i, now, toScan,
                 held, issued, expiredSeen, invalidSeen, start, closes,
                 validated>>

\* CheckoutReturn with the Unlock on the successful returns only.
CheckoutReturnUndeferred ==
  /\ pc = "co_ret"
  /\ lock' = ret.err
  /\ pc' = "idle"
  /\ IF ret.err
     THEN UNCHANGED <<held, issued, nCo>>
     ELSE /\ held' = held \cup {ret.client}
          /\ issued' = issued \cup {ret.client}
          /\ nCo' = IF clean THEN nCo + 1 ELSE 0
  /\ i' = 0
  /\ now' = 0
  /\ toScan' = {}
  /\ ret' = NoRet
  /\ start' = NoStart
  /\ expiredSeen' = {}
  /\ invalidSeen' = {}
  /\ opens' = 0
  /\ ci' = NoCi
  /\ UNCHANGED <<poolSize, freeConnections, connectionsInUse, clock, json,
                 clean, nCi, closes, validated>>

\* Checkout returns and the deferred c.lock.Unlock() runs
CheckoutReturn ==
  /\ pc = "co_ret"
  /\ lock' = FALSE
  /\ pc' = "idle"
  /\ IF ret.err
     THEN UNCHANGED <<held, issued, nCo>>
     ELSE /\ held' = held \cup {ret.client}
          /\ issued' = issued \cup {ret.client}
          /\ nCo' = IF clean THEN nCo + 1 ELSE 0
  /\ i' = 0
  /\ now' = 0
  /\ toScan' = {}
  /\ ret' = NoRet
  /\ start' = NoStart
  /\ expiredSeen' = {}
  /\ invalidSeen' = {}
  /\ opens' = 0
  /\ ci' = NoCi
  /\ UNCHANGED <<poolSize, freeConnections, connectionsInUse, clock, json,
                 clean, nCi, closes, validated>>

----------------------------------------------------------------------------
\* CheckIn

\* The whole of CheckIn(c), from c.lock.Lock() to the deferred Unlock.  The
\* caller is the holder of c, or (byHolder = FALSE) another caller that has
\* a pointer to c: one that checked c in before, or was given the pointer.
CheckIn(c, byHolder) ==
  /\ pc = "idle"
  /\ ~lock
  /\ byHolder => c \in held
  /\ LET hsh == hash(c)
         inUse1 == Delete(connectionsInUse, hsh)
     IN  /\ connectionsInUse' = inUse1
         /\ freeConnections' =
              IF CheckInKeeps(len(freeConnections) + len(inUse1))
              THEN Put(freeConnections, hsh,
                       [db |-> c, creationTime |-> clock])
              ELSE freeConnections
         /\ ci' = [client |-> c, byHolder |-> byHolder, before |-> Total,
                   inUse |-> hsh \in DOMAIN connectionsInUse,
                   inFree |-> hsh \in DOMAIN freeConnections,
                   free |-> freeConnections, closes |-> closes]
  /\ IF clean /\ byHolder
     THEN /\ nCi' = nCi + 1
          /\ UNCHANGED <<clean, nCo>>
     ELSE Dirty
  /\ held' = IF byHolder THEN held \ {c} ELSE held
  /\ UNCHANGED <<poolSize, lock, pc, clock, json, i, now, toScan, ret,
                 start, issued, expiredSeen, invalidSeen, opens, closes,
                 validated>>

----------------------------------------------------------------------------

Checkout ==
  \/ CheckoutLock
  \/ FillStep
  \/ NowStep
  \/ TopUpStep
  \/ ScanStep
  \/ MissStep
  \/ CheckoutReturn

\* Callers may check in any client the pool has ever handed out.
Next ==
  \/ Tick
  \/ Checkout
  \/ \E c \in issued : \E byHolder \in BOOLEAN : CheckIn(c, byHolder)

Spec == Init /\ [][Next]_vars

\* Callers check in only what they hold.
NextHolders ==
  \/ Tick
  \/ Checkout
  \/ \E c \in held : CheckIn(c, TRUE)

SpecHolders == Init /\ [][NextHolders]_vars

\* The steps of the Checkout that holds the lock.
Running ==
  \/ FillStep
  \/ NowStep
  \/ TopUpStep
  \/ ScanStep
  \/ MissStep
  \/ CheckoutReturn

\* The caller that holds the lock keeps running and every call it makes of
\* mongo.NewClient, Connect and Disconnect returns: a Checkout that can take
\* a step takes it.  Nothing makes callers call, and nothing makes time pass.
SpecHoldersFair == SpecHolders /\ WF_vars(Running)

TypeOK ==
  /\ poolSize \in 1..MaxPoolSize
  /\ lock \in BOOLEAN
  /\ clock \in 0..MaxTime
  /\ \A k \in DOMAIN freeConnections : hash(freeConnections[k].db) = k
  /\ \A k \in DOMAIN connectionsInUse : hash(connectionsInUse[k].db) = k

----------------------------------------------------------------------------
\* The claims.

Max(a, b) == IF a >= b THEN a ELSE b

\* No two clients opened so far have the same key.
DistinctKeys == \A c \in Clients : json[c] \in {0, c}

\* The state a CheckIn has just produced.
CheckedIn == ci.client # 0

\* Checkout is about to return a client.
Returning == pc = "co_ret" /\ ~ret.err

\* C1: when callers check in only what they hold, the client a Checkout
\* returns is held by no caller: it was never handed out, or its holder
\* has checked it in.
C1_OneHolder == Returning => ret.client \notin held

\* C1: a client that was handed out before and checked in is handed out
\* again while another client is held.
C1_Witness ==
  /\ Returning
  /\ ret.client \in issued
  /\ held # {}

\* C2: no key is in both freeConnections and connectionsInUse.
C2_Disjoint == DOMAIN freeConnections \cap DOMAIN connectionsInUse = {}

\* C3 as stated, for clients with distinct keys: in the state a holder's
\* CheckIn of a checked-out client has produced, |free| + |inUse| <= poolSize.
C3_BoundAfterPair ==
  (CheckedIn /\ ci.byHolder /\ DistinctKeys) => Total <= poolSize

\* C3 as amended: a CheckIn leaves at most max(poolSize, the total it found
\* less one) connections when its client's key was in connectionsInUse, and
\* at most max(poolSize, the total it found) when it was not.
C3_CheckInLowers ==
  CheckedIn =>
    Total <= Max(poolSize, ci.before - (IF ci.inUse THEN 1 ELSE 0))

\* C3: a holder's CheckIn leaves the total above poolSize.
C3_Witness ==
  /\ CheckedIn
  /\ ci.byHolder
  /\ ci.inUse
  /\ Total > poolSize

\* C4 as stated, for clients with distinct keys: |free| + |inUse| is at most
\* poolSize + 1 in every state.
C4_OneOver == DistinctKeys => Total <= poolSize + 1

\* C4 as amended: while a Checkout runs and when it returns, |free| + |inUse|
\* is at most max(poolSize + 1, the total that Checkout found plus one).
C4_OneMorePerCheckout ==
  pc # "idle" =>
    Total <= Max(poolSize + 1, len(start.free) + len(start.inUse) + 1)

\* C4: a Checkout returns with the total two or more above poolSize.
C4_Witness ==
  /\ Returning
  /\ Total > poolSize + 1
  /\ Total = len(start.free) + len(start.inUse) + 1

\* C5 as stated: the age (now less creationTime) of a client returned from
\* freeConnections is below expiry.
C5_YoungerThanExpiry ==
  (Returning /\ ret.fromFree) => ret.age < expiry

\* C5 as amended: the age of a client returned from freeConnections is at
\* most expiry, and a client the scan found older than expiry is neither
\* returned nor left in freeConnections.
C5_NotOlderThanExpiry ==
  /\ (Returning /\ ret.fromFree) => ret.age <= expiry
  /\ pc # "idle" =>
       /\ expiredSeen \cap Dbs(freeConnections) = {}
       /\ ret.client \notin expiredSeen

\* C5: one scan drops a client older than expiry and returns a client whose
\* age is expiry.
C5_Witness ==
  /\ Returning
  /\ ret.fromFree
  /\ ret.age = expiry
  /\ expiredSeen # {}

\* C6 as stated: a client that failed validate in the running scan is
\* neither returned nor left in freeConnections, and the scan goes on after
\* it: it is not the client whose kill ends the Checkout.
C6_ScanGoesOn ==
  pc # "idle" =>
    /\ invalidSeen \cap Dbs(freeConnections) = {}
    /\ ret.client \notin invalidSeen
    /\ ret.killFailed \notin invalidSeen

\* C6 as amended: a client that failed validate in the running scan is
\* neither returned nor left in freeConnections; when its kill fails the
\* Checkout returns an error and no client.
C6_InvalidNotReturned ==
  pc # "idle" =>
    /\ invalidSeen \cap Dbs(freeConnections) = {}
    /\ ret.client \notin invalidSeen
    /\ ret.killFailed \in invalidSeen => (ret.err /\ ret.client = 0)

\* C6: a scan that dropped an invalid client returns another free client.
C6_Witness ==
  /\ Returning
  /\ ret.fromFree
  /\ invalidSeen # {}

\* C7 as stated, for clients with distinct keys: after N <= poolSize
\* Checkouts and then N CheckIns on a new pool, with no failure and no
\* expiry, |free| = N and |inUse| = 0.
C7_FreeIsN ==
  (clean /\ pc = "idle" /\ nCo >= 1 /\ nCo <= poolSize /\ nCi = nCo
     /\ DistinctKeys) =>
    /\ len(freeConnections) = nCo
    /\ len(connectionsInUse) = 0

\* C7 as amended: after them |inUse| = 0 and |free| <= poolSize, and
\* |free| = poolSize when the clients' keys are distinct.
C7_FreeIsPoolSize ==
  (clean /\ pc = "idle" /\ nCo >= 1 /\ nCo <= poolSize /\ nCi = nCo) =>
    /\ len(connectionsInUse) = 0
    /\ len(freeConnections) <= poolSize
    /\ DistinctKeys => len(freeConnections) = poolSize

\* C7: one Checkout and one CheckIn on a pool of size 2 leave 2 free.
C7_Witness ==
  /\ clean
  /\ pc = "idle"
  /\ poolSize = 2
  /\ nCo = 1
  /\ nCi = 1
  /\ DistinctKeys
  /\ len(freeConnections) = 2

\* C8 as stated, for clients with distinct keys: a CheckIn that found
\* |free| + |inUse| = poolSize leaves the total and freeConnections as they
\* were.
C8_DroppedAtSize ==
  (CheckedIn /\ ci.before = poolSize /\ DistinctKeys) =>
    /\ Total = ci.before
    /\ freeConnections = ci.free

\* C8 as amended: a CheckIn that found |free| + |inUse| = poolSize, of a
\* client whose key was in connectionsInUse, leaves the client in
\* freeConnections and its key out of connectionsInUse; the total is as it
\* was unless freeConnections had the key already, and then one less.  If
\* the key was not in connectionsInUse the client is dropped and both
\* freeConnections and the total are as they were.
C8_KeptAtSize ==
  (CheckedIn /\ ci.before = poolSize) =>
    IF ci.inUse
    THEN /\ ci.client \in Dbs(freeConnections)
         /\ hash(ci.client) \notin DOMAIN connectionsInUse
         /\ Total = IF ci.inFree THEN ci.before - 1 ELSE ci.before
    ELSE /\ freeConnections = ci.free
         /\ Total = ci.before

\* C8: a CheckIn that found the total at poolSize moved its client from
\* connectionsInUse to freeConnections.
C8_Witness ==
  /\ CheckedIn
  /\ ci.before = poolSize
  /\ ci.inUse
  /\ ~ci.inFree
  /\ ci.client \in Dbs(freeConnections)

\* C9, for clients with distinct keys: the first Checkout on a new pool of
\* size N, with no failure, opens N clients and leaves |free| = N - 1 and
\* |inUse| = 1.
C9_OpensN ==
  (clean /\ Returning /\ nCo = 0 /\ DistinctKeys) =>
    /\ opens = poolSize
    /\ len(freeConnections) = poolSize - 1
    /\ len(connectionsInUse) = 1

\* C10: a CheckIn that found |free| + |inUse| > poolSize and its client's
\* key in connectionsInUse leaves the key out of connectionsInUse,
\* freeConnections as it was and the total one less.
C10_DroppedAboveSize ==
  (CheckedIn /\ ci.inUse /\ ci.before > poolSize) =>
    /\ hash(ci.client) \notin DOMAIN connectionsInUse
    /\ freeConnections = ci.free
    /\ Total = ci.before - 1

\* C10: a CheckIn on a pool of size 2 that found 3 connections left 2.
C10_Witness ==
  /\ CheckedIn
  /\ ci.inUse
  /\ poolSize = 2
  /\ ci.before = 3
  /\ Total = 2

\* The clients the running scan has discarded.
Discarded == expiredSeen \cup invalidSeen

\* Checkout is about to return an error.
Failing == pc = "co_ret" /\ ret.err

C12_OverflowClosed ==
  (CheckedIn /\ ci.inUse /\ DistinctKeys
     /\ ci.client \notin Dbs(freeConnections)) =>
    closes[ci.client] >= 1

\* C12 as amended: every client the running scan discarded, expired or
\* invalid, has been killed, and a CheckIn kills no client: the client it
\* drops is left open.
C12_ScanDiscardsClosed ==
  /\ pc # "idle" => \A c \in Discarded : closes[c] >= 1
  /\ CheckedIn => closes = ci.closes

\* C12: a CheckIn dropped its client, which was never killed, in a pool
\* whose scan had discarded and killed another client.
C12_Witness ==
  /\ CheckedIn
  /\ ci.inUse
  /\ DistinctKeys
  /\ ci.client \notin Dbs(freeConnections)
  /\ closes[ci.client] = 0
  /\ \E c \in Clients : closes[c] = 1

\* C13 as stated, for clients with distinct keys: when Checkout fails
\* because create failed, both maps are as the Checkout found them.
C13_StateRestored ==
  (Failing /\ ret.cause = "open" /\ DistinctKeys) =>
    /\ freeConnections = start.free
    /\ connectionsInUse = start.inUse

\* C13 as amended: when Checkout fails because create failed,
\* connectionsInUse is as the Checkout found it, and freeConnections holds
\* no client the scan discarded and at most the clients it held plus those
\* this Checkout opened before the failure; when the scan discarded nothing
\* and keys are distinct it holds exactly those: the failed create added
\* nothing, and what the rounds before it added stays.
C13_OpenFailureKeepsEarlier ==
  (Failing /\ ret.cause = "open") =>
    /\ connectionsInUse = start.inUse
    /\ Dbs(freeConnections) \cap Discarded = {}
    /\ len(freeConnections) <= len(start.free) + opens
    /\ (Discarded = {} /\ DistinctKeys) =>
         /\ len(freeConnections) = len(start.free) + opens
         /\ \A k \in DOMAIN start.free :
              /\ k \in DOMAIN freeConnections
              /\ freeConnections[k] = start.free[k]

\* C13: a fill or top-up fails at create after a round that stored a client.
C13_Witness ==
  /\ Failing
  /\ ret.cause = "open"
  /\ opens > 0
  /\ len(freeConnections) > len(start.free)

\* C14: a Checkout that has failed, whatever call failed, is at its return
\* with no client, and connectionsInUse is as the Checkout found it.
C14_FailedKeepsInUse ==
  (pc # "idle" /\ ret.err) =>
    /\ pc = "co_ret"
    /\ ret.client = 0
    /\ ret.cause \in {"open", "probe", "close"}
    /\ connectionsInUse = start.inUse

\* C14: a Checkout fails, after it changed freeConnections, in a pool with a
\* client in use.
C14_Witness ==
  /\ Failing
  /\ connectionsInUse # EmptyMap
  /\ freeConnections # start.free

\* C15: when kill fails on a client the scan discards, the Checkout is at
\* its return with an error, and the client is in neither map.
C15_KillFailureRemoves ==
  ret.killFailed # 0 =>
    /\ Failing
    /\ ret.cause = "close"
    /\ ret.killFailed \in Discarded
    /\ ret.killFailed \notin Dbs(freeConnections)
    /\ ret.killFailed \notin Dbs(connectionsInUse)

\* C15: kill failed on an expired client while other clients are free.
C15_Witness ==
  /\ Failing
  /\ ret.killFailed \in expiredSeen
  /\ freeConnections # EmptyMap

\* The running Checkout found the pool exhausted: nothing free, and
\* poolSize or more connections in use.
Exhausted ==
  /\ pc # "idle"
  /\ len(start.free) = 0
  /\ len(start.inUse) >= poolSize

\* Client c was opened by the running Checkout.
OpenedHere(c) == c \in (Opened - opens + 1)..Opened

\* Client c is recorded in connectionsInUse under its key.
InUse(c) ==
  /\ hash(c) \in DOMAIN connectionsInUse
  /\ connectionsInUse[hash(c)].db = c

C17_ValidatedBeforeUse ==
  (Returning /\ DistinctKeys) =>
    /\ ret.fromFree
    /\ ret.client \in validated

\* C17 as amended: a client in freeConnections has passed validate or was
\* handed out before; a client returned from freeConnections has passed
\* validate; a client returned by the miss path is one this Checkout opened,
\* was never in freeConnections and has never been validated.
C17_ValidatedUnlessMiss ==
  /\ \A c \in Dbs(freeConnections) : c \in validated \/ c \in issued
  /\ Returning =>
       IF ret.fromFree
       THEN ret.client \in validated
       ELSE /\ OpenedHere(ret.client)
            /\ ret.client \notin validated
            /\ ret.client \notin issued
            /\ ret.client \notin Dbs(freeConnections)

\* C17: the miss path returns a client that was never validated while a
\* validated client is in use.
C17_Witness ==
  /\ Returning
  /\ ~ret.fromFree
  /\ DistinctKeys
  /\ ret.client \notin validated
  /\ Dbs(connectionsInUse) \cap validated # {}

\* C18: when no Checkout runs and no CheckIn runs, |free| <= poolSize.
C18_FreeWithinCapacity == pc = "idle" => len(freeConnections) <= poolSize

\* C18: no operation runs, |free| = poolSize and |free| + |inUse| > poolSize,
\* after an operation failed or a caller broke the discipline.
C18_Witness ==
  /\ pc = "idle"
  /\ len(freeConnections) = poolSize
  /\ Total > poolSize
  /\ ~clean

\* C19 as stated, for clients with distinct keys: a CheckIn whose client was
\* not in connectionsInUse leaves freeConnections with no new member.
C19_OnlyFromInUse ==
  (CheckedIn /\ ~ci.inUse /\ DistinctKeys) =>
    Dbs(freeConnections) \subseteq Dbs(ci.free)

\* C19 as amended: whether or not its client's key was in connectionsInUse,
\* a CheckIn stores the client in freeConnections, with the time of the
\* CheckIn, when the total after the delete is below poolSize, and leaves
\* freeConnections as it was when it is not.
C19_InsertsBySizeAlone ==
  CheckedIn =>
    LET after == ci.before - (IF ci.inUse THEN 1 ELSE 0)
    IN  /\ hash(ci.client) \notin DOMAIN connectionsInUse
        /\ freeConnections =
             IF after < poolSize
             THEN Put(ci.free, hash(ci.client),
                      [db |-> ci.client, creationTime |-> clock])
             ELSE ci.free

\* C19: a CheckIn of a client that was in neither map put it in
\* freeConnections.
C19_Witness ==
  /\ CheckedIn
  /\ ~ci.inUse
  /\ ~ci.inFree
  /\ DistinctKeys
  /\ ci.client \in Dbs(freeConnections)

\* C20: when the caller that holds the lock keeps running and its calls
\* return, the lock, once taken, is released again, whatever path the
\* Checkout takes; and a CheckIn leaves the lock released.
C20_LockReleased ==
  /\ [](CheckedIn => ~lock)
  /\ lock ~> ~lock

\* C20: a Checkout that failed is at its return and holds the lock.
C20_Witness ==
  /\ lock
  /\ Failing

====
